---- MODULE Spec2Model ----
(***************************************************************************)
(* A model of gitlab_my_tasks.py.                                          *)
(*                                                                         *)
(*   Spec      the REST side: build_issue_tree (explicit-parent pass,      *)
(*             link-derived pass with one links request per non-task       *)
(*             issue, root determination) followed by print_issue_tree on  *)
(*             every returned root.                                        *)
(*   SpecWalk  the GraphQL side: the __main__ run, get_my_issue_gids, then *)
(*             per gid fetch_workitem_hierarchy and                        *)
(*             print_workitem_hierarchy, then the output file.             *)
(*                                                                         *)
(* Python values are modelled as follows.  A dict with fixed keys is a     *)
(* record; an optional value (a key that may be absent, or None) is a      *)
(* sequence of length 0 or 1; a dict used as a map (children_map,          *)
(* issues_by_id, iid_to_id) is a function whose DOMAIN is the set of keys  *)
(* present; a list is a sequence.                                          *)
(***************************************************************************)
EXTENDS Integers, Sequences, FiniteSets

VARIABLES
    \* ---- build_issue_tree / print_issue_tree
    issues,        \* the argument of build_issue_tree
    pc,            \* where build_issue_tree (and then its caller) stands
    i,             \* position of the link-derived pass (line 86)
    children_map,  \* line 80
    requests,      \* the links requests issued so far, with their responses
    result,        \* what build_issue_tree returned: <<>> until it returns
    r,             \* the next root the caller prints
    stack,         \* the frames of print_issue_tree
    printed,       \* the lines print_issue_tree printed
    \* ---- the hierarchy walker (__main__)
    remote,        \* the work items the tracker holds for the user
    wpc,           \* where __main__ stands
    my_gids,       \* line 311
    k,             \* position of the loop of line 314
    workitem,      \* line 315: <<>> or <<the fetched work item>>
    gql,           \* the GraphQL requests issued so far
    output_lines,  \* line 310
    file           \* my_gitlab_tasks.txt: <<>> until written

treeVars == <<issues, pc, i, children_map, requests, result, r, stack, printed>>
walkVars == <<remote, wpc, my_gids, k, workitem, gql, output_lines, file>>
vars == <<issues, pc, i, children_map, requests, result, r, stack, printed,
          remote, wpc, my_gids, k, workitem, gql, output_lines, file>>

(***************************************************************************)
(* Bounds of the model.                                                    *)
(***************************************************************************)
\* the number of issues handed to build_issue_tree
NumIssues == 3
\* the size of the input: parent references, non-"issue" types, links in the
\* responses and non-200 statuses, counted together
MaxInput == 3

Min(a, b) == IF a < b THEN a ELSE b

RECURSIVE Concat(_)
\* the concatenation of a sequence of sequences
Concat(ss) == IF ss = <<>> THEN <<>> ELSE Head(ss) \o Concat(Tail(ss))

\* how often x occurs in the sequence s
Count(s, x) == Cardinality({n \in 1..Len(s) : s[n] = x})

(***************************************************************************)
(* The inputs.  The issue at position n has id n; display-ids are disjoint *)
(* from ids, so that reading one for the other shows.                      *)
(***************************************************************************)
Positions == 1..NumIssues
IdOf(n) == n
IidOf(n) == NumIssues + 1 + n
UnknownId == NumIssues + 1
UnknownIid == 2 * NumIssues + 2

Parents == {<<>>} \cup {<<[id |-> p]>> : p \in {IdOf(n) : n \in Positions} \cup {UnknownId}}
Types == {<<>>, <<"issue">>, <<"task">>}

IssueWeight(issue) ==
    (IF issue.parent = <<>> THEN 0 ELSE 1) + (IF issue.type = <<"issue">> THEN 0 ELSE 1)

RECURSIVE SumWeights(_, _)
SumWeights(f, n) == IF n = 0 THEN 0 ELSE f[n] + SumWeights(f, n - 1)

IssueSeqs ==
    {iss \in [Positions -> [parent : Parents, type : Types]] :
        SumWeights([n \in Positions |-> IssueWeight(iss[n])], NumIssues) <= MaxInput}

MakeIssues(iss) ==
    [n \in Positions |->
        [id |-> IdOf(n), iid |-> IidOf(n), type |-> iss[n].type, parent |-> iss[n].parent]]

\* a link of a links response: its link_type and the display-id of its target
Links ==
    [link_type : {"blocks"}, iid : {IidOf(n) : n \in Positions} \cup {UnknownIid}]
        \cup {[link_type |-> "relates_to", iid |-> IidOf(1)]}

RECURSIVE SeqsUpTo(_, _)
\* the sequences over S of length at most n
SeqsUpTo(S, n) ==
    IF n = 0 THEN {<<>>}
    ELSE LET shorter == SeqsUpTo(S, n - 1)
         IN  shorter \cup {Append(s, x) : s \in {t \in shorter : Len(t) = n - 1}, x \in S}

StatusCodes == {200, 403, 404, 500}

ResponseWeight(resp) == Len(resp.json) + (IF resp.status_code = 200 THEN 0 ELSE 1)

InputUsed ==
    SumWeights([n \in Positions |-> IssueWeight(issues[n])], NumIssues)
        + SumWeights([n \in 1..Len(requests) |-> ResponseWeight(requests[n].response)],
                     Len(requests))

\* the responses the tracker may give to the next links request
Responses ==
    LET left == MaxInput - InputUsed
    IN  {[status_code |-> 200, json |-> links] : links \in SeqsUpTo(Links, left)}
            \cup (IF left > 0
                  THEN {[status_code |-> code, json |-> <<>>] : code \in StatusCodes \ {200}}
                  ELSE {})

(***************************************************************************)
(* get_issue_links (lines 35-41).                                          *)
(***************************************************************************)
\* requests' Response.raise_for_status: an HTTPError for 4xx and 5xx
raise_for_status(response) == response.status_code >= 400 /\ response.status_code < 600

get_issue_links_no_404(response) ==
    IF raise_for_status(response)
    THEN [raised |-> TRUE, value |-> <<>>]
    ELSE [raised |-> FALSE, value |-> response.json]

get_issue_links_swallow(response) ==
    IF raise_for_status(response)
    THEN [raised |-> FALSE, value |-> <<>>]
    ELSE [raised |-> FALSE, value |-> response.json]

\* what get_issue_links does with the response to its request: the list it
\* returns, or the exception it lets through
get_issue_links(response) ==
    IF response.status_code = 404
    THEN [raised |-> FALSE, value |-> <<>>]
    ELSE IF raise_for_status(response)
         THEN [raised |-> TRUE, value |-> <<>>]
         ELSE [raised |-> FALSE, value |-> response.json]

(***************************************************************************)
(* build_issue_tree (lines 75-111).                                        *)
(***************************************************************************)
\* line 77: a dict comprehension, the last issue with an id wins
issues_by_id(iss) ==
    [d \in {iss[n].id : n \in 1..Len(iss)} |->
        iss[CHOOSE n \in 1..Len(iss) :
                /\ iss[n].id = d
                /\ \A m \in 1..Len(iss) : iss[m].id = d => m <= n]]

\* line 78
iid_to_id(iss) ==
    [d \in {iss[n].iid : n \in 1..Len(iss)} |->
        (iss[CHOOSE n \in 1..Len(iss) :
                /\ iss[n].iid = d
                /\ \A m \in 1..Len(iss) : iss[m].iid = d => m <= n]).id]

\* children_map.setdefault(key, []).append(value)
setdefault_append(cm, key, value) ==
    [d \in DOMAIN cm \cup {key} |->
        IF d \in DOMAIN cm THEN (IF d = key THEN Append(cm[d], value) ELSE cm[d])
        ELSE <<value>>]

\* lines 83 and 103: parent and parent.get("id") in issues_by_id
has_resolvable_parent(issue, iss) ==
    issue.parent # <<>> /\ issue.parent[1].id \in DOMAIN issues_by_id(iss)

RECURSIVE explicit_parent_pass(_, _, _)
\* lines 81-84, from position n on
explicit_parent_pass(iss, n, cm) ==
    IF n > Len(iss) THEN cm
    ELSE explicit_parent_pass(iss, n + 1,
            IF has_resolvable_parent(iss[n], iss)
            THEN setdefault_append(cm, iss[n].parent[1].id, iss[n])
            ELSE cm)

\* line 88: issue.get("type", "issue") == "issue"
is_issue_type(issue) == (IF issue.type = <<>> THEN "issue" ELSE issue.type[1]) = "issue"

link_is_child_with_self(link, issue, iss) ==
    /\ link.link_type = "blocks"
    /\ link.iid \in DOMAIN iid_to_id(iss)

\* lines 92-94: the link makes its target a child of issue
link_is_child(link, issue, iss) ==
    /\ link.link_type = "blocks"
    /\ link.iid \in DOMAIN iid_to_id(iss)
    /\ iid_to_id(iss)[link.iid] # issue.id

RECURSIVE link_loop(_, _, _, _)
\* lines 90-97: the links of one issue, in the order of the response
link_loop(links, issue, iss, cm) ==
    IF links = <<>> THEN cm
    ELSE link_loop(Tail(links), issue, iss,
            IF link_is_child(Head(links), issue, iss)
            THEN setdefault_append(cm, issue.id,
                                   issues_by_id(iss)[iid_to_id(iss)[Head(links).iid]])
            ELSE cm)

is_child_parent_only(issue, iss, cm) == has_resolvable_parent(issue, iss)

\* lines 101-108
is_child(issue, iss, cm) ==
    \/ has_resolvable_parent(issue, iss)
    \/ \E d \in DOMAIN cm : \E n \in 1..Len(cm[d]) : cm[d][n] = issue

\* lines 99-110
root_issues(iss, cm) == SelectSeq(iss, LAMBDA issue : ~is_child(issue, iss, cm))

NoMap == [d \in {} |-> <<>>]

InitTree ==
    /\ issues \in {MakeIssues(iss) : iss \in IssueSeqs}
    /\ pc = "parents"
    /\ i = 1
    /\ children_map = NoMap
    /\ requests = <<>>
    /\ result = <<>>
    /\ r = 1
    /\ stack = <<>>
    /\ printed = <<>>

\* lines 80-84
ExplicitParentPass ==
    /\ pc = "parents"
    /\ children_map' = explicit_parent_pass(issues, 1, NoMap)
    /\ pc' = "links"
    /\ UNCHANGED <<issues, i, requests, result, r, stack, printed>>

\* lines 86-88, an issue that is not of type "issue": no links request
SkipTask ==
    /\ pc = "links"
    /\ i <= Len(issues)
    /\ ~is_issue_type(issues[i])
    /\ i' = i + 1
    /\ UNCHANGED <<issues, pc, children_map, requests, result, r, stack, printed>>

\* lines 86-97, an issue of type "issue": the links request and, unless
\* get_issue_links raises, the loop over the links
LinkPass ==
    /\ pc = "links"
    /\ i <= Len(issues)
    /\ is_issue_type(issues[i])
    /\ \E response \in Responses :
        LET links == get_issue_links(response)
        IN  /\ requests' = Append(requests, [iid |-> issues[i].iid, response |-> response])
            /\ IF links.raised
               THEN /\ pc' = "raised"
                    /\ UNCHANGED <<i, children_map>>
               ELSE /\ children_map' = link_loop(links.value, issues[i], issues, children_map)
                    /\ i' = i + 1
                    /\ pc' = pc
    /\ UNCHANGED <<issues, result, r, stack, printed>>

\* lines 98-111
RootPass ==
    /\ pc = "links"
    /\ i > Len(issues)
    /\ result' = <<[issues_by_id |-> issues_by_id(issues),
                    children_map |-> children_map,
                    root_issues |-> root_issues(issues, children_map)]>>
    /\ pc' = "returned"
    /\ UNCHANGED <<issues, i, children_map, requests, r, stack, printed>>

(***************************************************************************)
(* print_issue_tree (lines 114-128), called on every root of the result.   *)
(* A frame holds the issue, the indent and the position of the loop of     *)
(* line 127.  Python ends a recursion deeper than its recursion limit with *)
(* a RecursionError; the model's limit is RecursionLimit.                  *)
(***************************************************************************)
RecursionLimit == NumIssues + 2

\* lines 115-119: the line printed for an issue
issue_line(issue, indent) == [indent |-> indent, iid |-> issue.iid]

\* line 127: children_map.get(issue["id"], [])
children_of(cm, issue) == IF issue.id \in DOMAIN cm THEN cm[issue.id] ELSE <<>>

Frame(issue, indent) == [issue |-> issue, indent |-> indent, next |-> 1]

\* the caller: print_issue_tree(root, children_map) for the next root
PrintRoot ==
    /\ pc = "returned"
    /\ stack = <<>>
    /\ r <= Len(result[1].root_issues)
    /\ stack' = <<Frame(result[1].root_issues[r], 0)>>
    /\ printed' = Append(printed, issue_line(result[1].root_issues[r], 0))
    /\ r' = r + 1
    /\ UNCHANGED <<issues, pc, i, children_map, requests, result>>

\* lines 127-128: the recursive call for the next child, and its line
PrintCall ==
    /\ pc = "returned"
    /\ stack # <<>>
    /\ LET top == stack[Len(stack)]
           children == children_of(result[1].children_map, top.issue)
       IN  /\ top.next <= Len(children)
           /\ Len(stack) < RecursionLimit
           /\ stack' = Append([stack EXCEPT ![Len(stack)].next = top.next + 1],
                              Frame(children[top.next], top.indent + 1))
           /\ printed' = Append(printed, issue_line(children[top.next], top.indent + 1))
    /\ UNCHANGED <<issues, pc, i, children_map, requests, result, r>>

\* the recursive call that exceeds the recursion limit
PrintOverflow ==
    /\ pc = "returned"
    /\ stack # <<>>
    /\ LET top == stack[Len(stack)]
       IN  top.next <= Len(children_of(result[1].children_map, top.issue))
    /\ Len(stack) >= RecursionLimit
    /\ pc' = "recursion_error"
    /\ UNCHANGED <<issues, i, children_map, requests, result, r, stack, printed>>

\* line 127: the loop is over, the call returns
PrintReturn ==
    /\ pc = "returned"
    /\ stack # <<>>
    /\ LET top == stack[Len(stack)]
       IN  top.next > Len(children_of(result[1].children_map, top.issue))
    /\ stack' = SubSeq(stack, 1, Len(stack) - 1)
    /\ UNCHANGED <<issues, pc, i, children_map, requests, result, r, printed>>

WalkIdle ==
    /\ remote = <<>>
    /\ wpc = "idle"
    /\ my_gids = <<>>
    /\ k = 1
    /\ workitem = <<>>
    /\ gql = <<>>
    /\ output_lines = <<>>
    /\ file = <<>>

Init == InitTree /\ WalkIdle

Next ==
    \/ ExplicitParentPass /\ UNCHANGED walkVars
    \/ SkipTask /\ UNCHANGED walkVars
    \/ LinkPass /\ UNCHANGED walkVars
    \/ RootPass /\ UNCHANGED walkVars
    \/ PrintRoot /\ UNCHANGED walkVars
    \/ PrintCall /\ UNCHANGED walkVars
    \/ PrintOverflow /\ UNCHANGED walkVars
    \/ PrintReturn /\ UNCHANGED walkVars

Spec == Init /\ [][Next]_vars

(***************************************************************************)
(* The hierarchy walker: __main__ (lines 306-318).                         *)
(*                                                                         *)
(* The tracker holds, for each work item assigned to the user, its real    *)
(* hierarchy: shape[l] children under every item of level l - 1.  The path *)
(* from the top-level item names an item.                                  *)
(***************************************************************************)
\* the page size __main__ passes is 100 (lines 311, 315); the model's pages
\* are smaller, and the tracker's items have up to one child more than a page
page_size == 1
\* the number of work items assigned to the user
MaxGids == 2
\* the levels of children the query of fetch_workitem_hierarchy nests
\* (lines 236 and 249)
QueryLevels == 2

MaxChildren == page_size + 1
RemoteLevels == QueryLevels + 1

Shapes ==
    {shape \in [1..RemoteLevels -> 0..MaxChildren] :
        \A l \in 1..(RemoteLevels - 1) : shape[l] = 0 => shape[l + 1] = 0}

RECURSIVE RemoteItem(_, _)
\* the work item at `path` of a hierarchy whose levels below it are `shape`
RemoteItem(path, shape) ==
    [iid |-> path,
     children |-> IF shape = <<>> THEN <<>>
                  ELSE [j \in 1..Head(shape) |-> RemoteItem(Append(path, j), Tail(shape))]]

Remotes ==
    UNION {[1..n -> Shapes] : n \in 0..MaxGids}

RECURSIVE Respond(_, _, _)
\* the tracker's answer to the query of lines 218-266 for `item`, `level`
\* levels below the top: the fields asked for at that level, one page of
\* children from the start, and nothing below the nested levels
Respond(item, level, pageSize) ==
    IF level = QueryLevels
    THEN [iid |-> item.iid]
    ELSE [iid |-> item.iid,
          widgets |->
            <<[type |-> "ASSIGNEES"],
              [type |-> "HIERARCHY",
               hasChildren |-> item.children # <<>>,
               children |->
                 [nodes |-> [j \in 1..Min(pageSize, Len(item.children)) |->
                                Respond(item.children[j], level + 1, pageSize)]]]>>]

variables_next_cursor(issue_gid, pageSize) ==
    [id |-> issue_gid, pageSize |-> pageSize, endCursor |-> "next"]

\* line 267
variables(issue_gid, pageSize) ==
    [id |-> issue_gid, pageSize |-> pageSize, endCursor |-> ""]

\* lines 170-176: the line of a work item
workitem_line(item, indent) == [kind |-> "item", n |-> indent, iid |-> item.iid]

RECURSIVE print_workitem_hierarchy(_, _)
\* lines 167-186: the lines appended for `item`.  It issues no request.
print_workitem_hierarchy(item, indent) ==
    LET widgets == IF "widgets" \in DOMAIN item THEN item.widgets ELSE <<>>
        ofWidget(widget) ==
            IF widget.type = "HIERARCHY"
            THEN LET children ==
                        IF "children" \in DOMAIN widget THEN widget.children.nodes ELSE <<>>
                 IN  Concat([j \in 1..Len(children) |->
                                print_workitem_hierarchy(children[j], indent + 1)])
            ELSE <<>>
    IN  <<workitem_line(item, indent)>>
            \o Concat([w \in 1..Len(widgets) |-> ofWidget(widgets[w])])

HeaderLine == [kind |-> "header", n |-> 0, iid |-> <<>>]
CountLine(gids) == [kind |-> "count", n |-> Len(gids), iid |-> <<>>]

TreeIdle ==
    /\ issues = <<>>
    /\ pc = "idle"
    /\ i = 1
    /\ children_map = NoMap
    /\ requests = <<>>
    /\ result = <<>>
    /\ r = 1
    /\ stack = <<>>
    /\ printed = <<>>

InitWalk ==
    /\ remote \in Remotes
    /\ wpc = "start"
    /\ my_gids = <<>>
    /\ k = 1
    /\ workitem = <<>>
    /\ gql = <<>>
    /\ output_lines = <<>>
    /\ file = <<>>
    /\ TreeIdle

\* lines 309-313: get_my_issue_gids answers
GetMyIssueGids ==
    /\ wpc = "start"
    /\ gql' = Append(gql, [kind |-> "list", variables |-> <<>>])
    /\ my_gids' = [n \in 1..Len(remote) |-> n]
    /\ output_lines' = <<HeaderLine, CountLine(my_gids')>>
    /\ wpc' = "fetch"
    /\ UNCHANGED <<remote, k, workitem, file>>

\* line 311: get_my_issue_gids raises (raise_for_status, line 301)
GetMyIssueGidsFails ==
    /\ wpc = "start"
    /\ gql' = Append(gql, [kind |-> "list", variables |-> <<>>])
    /\ wpc' = "raised"
    /\ UNCHANGED <<remote, my_gids, k, workitem, output_lines, file>>

\* line 315: fetch_workitem_hierarchy (lines 216-276) answers
FetchWorkitemHierarchy ==
    /\ wpc = "fetch"
    /\ k <= Len(my_gids)
    /\ gql' = Append(gql, [kind |-> "hierarchy",
                           variables |-> <<variables(my_gids[k], page_size)>>])
    /\ workitem' = <<Respond(RemoteItem(<<my_gids[k]>>, remote[my_gids[k]]), 0, page_size)>>
    /\ wpc' = "print"
    /\ UNCHANGED <<remote, my_gids, k, output_lines, file>>

\* line 315: fetch_workitem_hierarchy raises (raise_for_status, line 274)
FetchWorkitemHierarchyFails ==
    /\ wpc = "fetch"
    /\ k <= Len(my_gids)
    /\ gql' = Append(gql, [kind |-> "hierarchy",
                           variables |-> <<variables(my_gids[k], page_size)>>])
    /\ wpc' = "raised"
    /\ UNCHANGED <<remote, my_gids, k, workitem, output_lines, file>>

\* line 316
PrintWorkitemHierarchy ==
    /\ wpc = "print"
    /\ output_lines' = output_lines \o print_workitem_hierarchy(workitem[1], 0)
    /\ k' = k + 1
    /\ wpc' = "fetch"
    /\ UNCHANGED <<remote, my_gids, workitem, gql, file>>

\* lines 317-318
WriteFile ==
    /\ wpc = "fetch"
    /\ k > Len(my_gids)
    /\ file' = <<output_lines>>
    /\ wpc' = "done"
    /\ UNCHANGED <<remote, my_gids, k, workitem, gql, output_lines>>

NextWalk ==
    \/ GetMyIssueGids /\ UNCHANGED treeVars
    \/ GetMyIssueGidsFails /\ UNCHANGED treeVars
    \/ FetchWorkitemHierarchy /\ UNCHANGED treeVars
    \/ FetchWorkitemHierarchyFails /\ UNCHANGED treeVars
    \/ PrintWorkitemHierarchy /\ UNCHANGED treeVars
    \/ WriteFile /\ UNCHANGED treeVars

SpecWalk == InitWalk /\ [][NextWalk]_vars

(***************************************************************************)
(* The claims on build_issue_tree and print_issue_tree, under Spec.        *)
(***************************************************************************)
Returned == result # <<>>

\* the ids in the child list of id d
ChildIds(cm, d) == IF d \in DOMAIN cm THEN {cm[d][n].id : n \in 1..Len(cm[d])} ELSE {}

AllChildIds(cm) == UNION {ChildIds(cm, d) : d \in DOMAIN cm}

RECURSIVE SumOver(_, _)
SumOver(S, f) ==
    IF S = {} THEN 0 ELSE LET x == CHOOSE y \in S : TRUE IN f[x] + SumOver(S \ {x}, f)

\* how often the issue occurs in all child lists together
Occurrences(cm, issue) == SumOver(DOMAIN cm, [d \in DOMAIN cm |-> Count(cm[d], issue)])

RECURSIVE DescendantsWithin(_, _, _)
\* the ids reached from the ids of S in 1 to n steps down the map
DescendantsWithin(cm, S, n) ==
    IF n = 0 THEN {}
    ELSE LET below == UNION {ChildIds(cm, d) : d \in S}
         IN  below \cup DescendantsWithin(cm, below, n - 1)

Descendants(cm, d) == DescendantsWithin(cm, {d}, NumIssues)

RootIds(roots) == {roots[n].id : n \in 1..Len(roots)}

ReachableFromRoots(cm, roots) ==
    RootIds(roots) \cup UNION {Descendants(cm, d) : d \in RootIds(roots)}

InputIds == {issues[n].id : n \in 1..Len(issues)}
InputIids == {issues[n].iid : n \in 1..Len(issues)}
PositionOfIid(iid) == CHOOSE n \in 1..Len(issues) : issues[n].iid = iid

\* the parent reference of the issue names an issue of the input
ParentInInput(issue) == issue.parent # <<>> /\ issue.parent[1].id \in InputIds

\* the issues whose parent reference names the id d, in input order
ExplicitChildren(d) ==
    SelectSeq(issues, LAMBDA issue : issue.parent # <<>> /\ issue.parent[1].id = d)

\* C1: in the ChildrenMap build_issue_tree returns, every issue occurs as a
\* child at most once overall: not under two parents, not twice in one list.
C1_ChildAtMostOnce ==
    Returned =>
        \A n \in 1..Len(issues) : Occurrences(result[1].children_map, issues[n]) <= 1

\* C2: following the returned ChildrenMap downward from a member of the
\* returned RootSet never revisits an issue: no issue reachable from a root
\* is its own descendant.
C2_AcyclicFromRoots ==
    Returned =>
        \A d \in ReachableFromRoots(result[1].children_map, result[1].root_issues) :
            d \notin Descendants(result[1].children_map, d)

AllTargetsResolve ==
    /\ \A n \in 1..Len(issues) : issues[n].parent # <<>> => ParentInInput(issues[n])
    /\ \A n \in 1..Len(requests) : \A l \in 1..Len(requests[n].response.json) :
            requests[n].response.json[l].link_type = "blocks"
                => requests[n].response.json[l].iid \in InputIids

\* C3: when every parent reference and every blocks link target resolves,
\* the result partitions the input: every issue occurs exactly once in the
\* RootSet and the child lists together, and is reachable from some root.
C3_Partition ==
    (Returned /\ AllTargetsResolve) =>
        \A n \in 1..Len(issues) :
            /\ Count(result[1].root_issues, issues[n])
                    + Occurrences(result[1].children_map, issues[n]) = 1
            /\ issues[n].id
                    \in ReachableFromRoots(result[1].children_map, result[1].root_issues)

\* C4: the returned RootSet is exactly the input issues, in input order, that
\* have no parent reference to an id of the input and whose id is in no child
\* list of the final ChildrenMap.
C4_RootSetExact ==
    Returned =>
        result[1].root_issues =
            SelectSeq(issues, LAMBDA issue :
                /\ ~ParentInInput(issue)
                /\ issue.id \notin AllChildIds(result[1].children_map))

\* an issue with a parent reference to an unknown id is a root, and an issue
\* that is a child only through a blocks link is not
C4_Witness ==
    /\ Returned
    /\ \E a, b \in 1..Len(issues) :
        /\ issues[a].parent = <<[id |-> UnknownId]>>
        /\ issues[a].id \in RootIds(result[1].root_issues)
        /\ issues[b].parent = <<>>
        /\ issues[b].id \in AllChildIds(result[1].children_map)
        /\ issues[b].id \notin RootIds(result[1].root_issues)

\* a status that is neither a success nor 404
IsFailure(response) ==
    ~(response.status_code >= 200 /\ response.status_code < 300)
        /\ response.status_code # 404

\* C7: a links request answered 404 does not abort build_issue_tree, the
\* issue it was made for gets no link-derived child (its child list holds
\* its explicit-parent children only), and the pass goes on to the issues
\* after it: build_issue_tree stops early only at a request that failed
\* with another status.
C7_NotFoundTolerated ==
    /\ pc = "raised" => IsFailure(requests[Len(requests)].response)
    /\ \A n \in 1..Len(requests) :
           requests[n].response.status_code = 404 =>
               LET issue == issues[PositionOfIid(requests[n].iid)]
               IN  /\ ~(pc = "raised" /\ n = Len(requests))
                   /\ i > PositionOfIid(requests[n].iid)
                   /\ children_of(children_map, issue) = ExplicitChildren(issue.id)
                   /\ Returned => children_of(result[1].children_map, issue)
                                       = ExplicitChildren(issue.id)

\* a 404 for an issue that has an explicit-parent child, followed by a later
\* issue whose links add a child, and a returned result
C7_Witness ==
    /\ Returned
    /\ \E m, n \in 1..Len(requests) :
        /\ m < n
        /\ requests[m].response.status_code = 404
        /\ ExplicitChildren(issues[PositionOfIid(requests[m].iid)].id) # <<>>
        /\ Len(children_of(children_map, issues[PositionOfIid(requests[n].iid)]))
                > Len(ExplicitChildren(issues[PositionOfIid(requests[n].iid)].id))

\* C8: a links request that fails with a status other than 404 is the last
\* request build_issue_tree issues (no retry, no request for a later issue),
\* and build_issue_tree returns nothing: the exception leaves it.
C8_FailurePropagates ==
    /\ \A n \in 1..Len(requests) :
        IsFailure(requests[n].response) =>
            /\ n = Len(requests)
            /\ pc = "raised"
            /\ result = <<>>
            /\ printed = <<>>
    /\ \A m, n \in 1..Len(requests) : m # n => requests[m].iid # requests[n].iid

\* a failure after an earlier request, with an issue of type "issue" left
\* that no request was made for
C8_Witness ==
    /\ pc = "raised"
    /\ Len(requests) >= 2
    /\ \E n \in 1..Len(issues) : n > i /\ is_issue_type(issues[n])

\* C9: a blocks link of issue I to I's own display-id adds no edge: I is in
\* its own child list only through an explicit parent reference to itself.
C9_SelfLinkIgnored ==
    pc # "parents" =>
        \A n \in 1..Len(issues) :
            Count(children_of(children_map, issues[n]), issues[n])
                = (IF issues[n].parent = <<[id |-> issues[n].id]>> THEN 1 ELSE 0)

\* a 200 response for an issue that holds a blocks link to that issue
C9_Witness ==
    /\ Returned
    /\ \E n \in 1..Len(requests) :
        /\ requests[n].response.status_code = 200
        /\ \E l \in 1..Len(requests[n].response.json) :
            requests[n].response.json[l] = [link_type |-> "blocks", iid |-> requests[n].iid]

\* C10: print_issue_tree on every root of the result terminates: the
\* recursion never goes deeper than the number of issues, so it never ends in
\* a RecursionError.
C10_PrintTerminates ==
    /\ Len(stack) <= NumIssues
    /\ pc # "recursion_error"

(***************************************************************************)
(* The claims on the hierarchy walker, under SpecWalk.                     *)
(***************************************************************************)
\* the hierarchy holds more than the query fetches: a level below the nested
\* ones, or more children at a fetched level than a page holds
IsTruncated(shape) ==
    \/ \E l \in (QueryLevels + 1)..RemoteLevels : shape[l] > 0
    \/ \E l \in 1..QueryLevels : shape[l] > page_size

\* the part of the hierarchy the query fetches
Fetched(shape) ==
    [l \in 1..RemoteLevels |-> IF l > QueryLevels THEN 0 ELSE Min(shape[l], page_size)]

\* the lines of a complete run over the work items rem
OutputFor(rem) ==
    <<HeaderLine, CountLine(rem)>>
        \o Concat([n \in 1..Len(rem) |->
                    print_workitem_hierarchy(
                        Respond(RemoteItem(<<n>>, rem[n]), 0, page_size), 0)])

\* C5: for a work item with three real levels of descendants, or with more
\* children at a level than a page holds, the output shows the truncation:
\* it is not the output of a run over the fetched part alone.
C5_TruncationObservable ==
    (wpc = "done" /\ \E n \in 1..Len(remote) : IsTruncated(remote[n])) =>
        file[1] # OutputFor([n \in 1..Len(remote) |-> Fetched(remote[n])])

HierarchyRequests == SelectSeq(gql, LAMBDA q : q.kind = "hierarchy")

\* C6: the hierarchy requests of a run are one per top-level work item id, in
\* the order of the ids, each with an empty cursor; rendering adds none, so
\* there are as many as there are work items fetched so far, and a complete
\* run made exactly one per id and one listing request.
C6_OneRequestPerWorkItem ==
    /\ Len(HierarchyRequests) <= Len(my_gids)
    /\ \A n \in 1..Len(HierarchyRequests) :
        HierarchyRequests[n].variables
            = <<[id |-> my_gids[n], pageSize |-> page_size, endCursor |-> ""]>>
    /\ wpc = "fetch" => Len(HierarchyRequests) = k - 1
    /\ wpc = "print" => Len(HierarchyRequests) = k
    /\ wpc = "done" => (Len(HierarchyRequests) = Len(my_gids) /\ Len(gql) = Len(my_gids) + 1)

\* a complete run over two work items, one of which has children the response
\* says exist and the query did not fetch
C6_Witness ==
    /\ wpc = "done"
    /\ Len(my_gids) >= 2
    /\ \E n \in 1..Len(remote) : IsTruncated(remote[n])

====
